---------------------------- MODULE Spec2Model ----------------------------
(***************************************************************************)
(* Model of the query pipeline of rag-openshift-ai-api:                    *)
(*   src/src/rag/agent.py       RAGAgent.answer_query, health_check        *)
(*   src/src/rag/retriever.py   ElasticSearchRetriever                     *)
(*   src/src/rag/embeddings.py  EmbeddingManager, _embedding_manager       *)
(*   src/src/api/routes.py      process_query (POST /query),               *)
(*                              readiness_check (GET /ready)               *)
(* Spec is the agent serving queries, OpsSpec the operations around it     *)
(* (health and readiness checks, direct retriever and embedding calls).    *)
(*                                                                         *)
(* Encoding of Python values:                                              *)
(*   None / Optional[T]   the empty set {} is None, {v} is the value v     *)
(*   dict                 a function whose DOMAIN is the set of keys       *)
(*   list                 a sequence                                       *)
(*   str                  a TLA+ string; a text that is preprocessed is a  *)
(*                        sequence of one-character strings; an exception  *)
(*                        type name is the sequence of its CamelCase words *)
(*   float                an integer count of fixed units: raw index       *)
(*                        scores and thresholds in units of 1/RawScale,    *)
(*                        normalized scores in units of 1/ScoreScale, a    *)
(*                        confidence as an exact fraction [num, den]       *)
(***************************************************************************)
EXTENDS Integers, Sequences, FiniteSets, TLC

(***************************************************************************)
(* Bounds of the model.                                                    *)
(***************************************************************************)
MaxCalls == 2      \* answer_query / process_query calls in one behaviour
MaxHits  == 3      \* hits in one index response
MaxManagers == 2   \* EmbeddingManager objects created in one behaviour
MaxTextLen == 4    \* characters of a short text given to preprocess_text
MaxBatch == 2      \* texts in one embed_batch call
MaxThreads == 2    \* threads calling answer_query at the same time

(***************************************************************************)
(* Program constants.                                                      *)
(***************************************************************************)
RawScale       == 10     \* raw scores are counted in tenths
ScoreScale     == 100    \* normalized scores are counted in hundredths
ScoreDivisor   == 2      \* raw_score / 2.0
max_length     == 512    \* preprocess_text truncation
TopKMin        == 1      \* RetrievalParams.top_k  ge=1
TopKMax        == 20     \* RetrievalParams.top_k  le=20
DefaultTopK    == 5      \* SearchParams.top_k / RAGSettings.top_k default
DefaultThreshold == 7    \* 0.7 in units of 1/RawScale
QuestionMinLength == 1   \* QueryRequest.question min_length
QuestionMaxLength == 2000

None == {}
Some(v) == {v}
Val(o) == CHOOSE v \in o : TRUE

\* dict.get(key) and dict.get(key, default)
Get(d, k) == IF k \in DOMAIN d THEN Some(d[k]) ELSE None
GetOr(d, k, default) == IF k \in DOMAIN d THEN d[k] ELSE default

Min(a, b) == IF a <= b THEN a ELSE b

(***************************************************************************)
(* EmbeddingManager.preprocess_text and embed_query.                       *)
(***************************************************************************)
Whitespace == {" ", "\t", "\n"}

\* str.lstrip(): the text from its first non-whitespace character on
lstrip(s) ==
  IF \A i \in 1..Len(s) : s[i] \in Whitespace THEN <<>>
  ELSE SubSeq(s, CHOOSE i \in 1..Len(s) :
                    /\ s[i] \notin Whitespace
                    /\ \A j \in 1..(i - 1) : s[j] \in Whitespace,
              Len(s))

\* str.rstrip(): the text up to its last non-whitespace character
rstrip(s) ==
  IF \A i \in 1..Len(s) : s[i] \in Whitespace THEN <<>>
  ELSE SubSeq(s, 1, CHOOSE i \in 1..Len(s) :
                       /\ s[i] \notin Whitespace
                       /\ \A j \in (i + 1)..Len(s) : s[j] \in Whitespace)

\* (below, CHOOSE r \in {e : x \in {v}} : TRUE is e with x standing for the
\* value of v, computed once)
strip(s) == CHOOSE r \in {rstrip(l) : l \in {lstrip(s)}} : TRUE

\* the length of the first word of a text that starts with one
WordLength(s) ==
  IF \A i \in 1..Len(s) : s[i] \notin Whitespace THEN Len(s)
  ELSE (CHOOSE i \in 1..Len(s) :
          /\ s[i] \in Whitespace
          /\ \A j \in 1..(i - 1) : s[j] \notin Whitespace) - 1

\* str.split(): the maximal runs of non-whitespace characters, in order
RECURSIVE split(_)
split(s) ==
  CHOOSE words \in
    {IF rest = <<>> THEN <<>>
     ELSE <<SubSeq(rest, 1, WordLength(rest))>> \o
          split(SubSeq(rest, WordLength(rest) + 1, Len(rest)))
       : rest \in {lstrip(s)}} : TRUE

\* " ".join(words)
RECURSIVE join(_)
join(words) ==
  IF words = <<>> THEN <<>>
  ELSE IF Len(words) = 1 THEN words[1]
  ELSE words[1] \o <<" ">> \o join(Tail(words))

\* variant: the whitespace runs inside the text left as they are
preprocess_text_uncollapsed(text) ==
  IF text = <<>> THEN <<>>
  ELSE CHOOSE r \in
         {IF Len(processed_text) > max_length
            THEN SubSeq(processed_text, 1, max_length)
            ELSE processed_text
            : processed_text \in {strip(text)}} : TRUE

preprocess_text(text) ==
  IF text = <<>> THEN <<>>
  ELSE CHOOSE r \in
         {IF Len(processed_text) > max_length
            THEN SubSeq(processed_text, 1, max_length)
            ELSE processed_text
            : processed_text \in {join(split(strip(text)))}} : TRUE

\* embed_query: None when the model is not loaded, when the text is empty
\* after preprocessing, or when model.encode raises (encode_ok = FALSE);
\* otherwise the vector of the preprocessed text.
embed_query(loaded, text, encode_ok) ==
  IF ~loaded THEN None
  ELSE LET processed_text == preprocess_text(text)
       IN  IF processed_text = <<>> THEN None
           ELSE IF ~encode_ok THEN None
           ELSE Some([vector_of |-> processed_text])

\* the texts of a batch that are not empty after preprocessing, in order
RECURSIVE ProcessedTexts(_)
ProcessedTexts(texts) ==
  IF texts = <<>> THEN <<>>
  ELSE LET processed_text == preprocess_text(Head(texts))
       IN  IF processed_text = <<>> THEN ProcessedTexts(Tail(texts))
           ELSE <<processed_text>> \o ProcessedTexts(Tail(texts))

\* embed_batch: self is [model_loaded, total_embeddings_generated].  None
\* when the model is not loaded, the list is empty, no text is left after
\* preprocessing, or model.encode raises; otherwise one vector per text
\* left, and the counter grown by their number.
embed_batch(self, texts, encode_ok) ==
  LET processed_texts == ProcessedTexts(texts)
      unchanged == [embeddings |-> None,
                    total_embeddings_generated |->
                       self.total_embeddings_generated]
  IN  IF ~self.model_loaded THEN unchanged
      ELSE IF texts = <<>> THEN unchanged
      ELSE IF processed_texts = <<>> THEN unchanged
      ELSE IF ~encode_ok THEN unchanged
      ELSE [embeddings |->
              Some([i \in 1..Len(processed_texts) |->
                      [vector_of |-> processed_texts[i]]]),
            total_embeddings_generated |->
              self.total_embeddings_generated + Len(processed_texts)]

(***************************************************************************)
(* EmbeddingManager objects and the module-level _embedding_manager.       *)
(* A manager is [model, vector_dimension, model_loaded]: model is None or  *)
(* the output dimension of the loaded SentenceTransformer.  `load` is what *)
(* loading the model does: raised (the constructor raises) or the output   *)
(* dimension of the model.                                                 *)
(***************************************************************************)
VectorDimension == 384   \* settings.elasticsearch.vector_dimension

\* EmbeddingManager.__init__
EmbeddingManager ==
  [model |-> None, vector_dimension |-> VectorDimension, model_loaded |-> FALSE]

_validate_model_dimensions(m) ==
  IF m.model = None THEN FALSE
  ELSE Val(m.model) = m.vector_dimension

\* variant: the result of the dimension validation ignored
initialize_model_unvalidated(m, load) ==
  IF load.raised THEN [result |-> FALSE, manager |-> m]
  ELSE [result  |-> TRUE,
        manager |-> [m EXCEPT !.model = Some(load.dimension),
                              !.model_loaded = TRUE]]

\* initialize_model: self.model is assigned before the validation, so a
\* manager whose validation failed keeps its model, with model_loaded False
initialize_model(m, load) ==
  IF load.raised THEN [result |-> FALSE, manager |-> m]
  ELSE LET m1 == [m EXCEPT !.model = Some(load.dimension)]
       IN  IF ~_validate_model_dimensions(m1)
             THEN [result |-> FALSE, manager |-> m1]
             ELSE [result  |-> TRUE,
                   manager |-> [m1 EXCEPT !.model_loaded = TRUE]]

\* `if not self.model_loaded or self.model is None` of embed_query, negated
ModelReady(m) == m.model_loaded /\ m.model # None

\* EmbeddingManager.cleanup
cleanup(m) == [m EXCEPT !.model = None, !.model_loaded = FALSE]

\* EmbeddingManager.get_health_status
get_health_status(m) == [model_loaded |-> m.model_loaded]

\* get_embedding_manager(): heap is the list of the managers created so
\* far, global the module's _embedding_manager (None or an index into the
\* heap).  The new manager is stored in the global before it is
\* initialized, and stays there when the initialization fails.
get_embedding_manager(heap, global, load) ==
  IF global = None
    THEN LET init == initialize_model(EmbeddingManager, load)
             heap1 == Append(heap, init.manager)
         IN  [raised  |-> IF init.result THEN None
                          ELSE Some([type |-> <<"Runtime", "Error">>,
                                     message |->
                                       "Failed to initialize embedding manager"]),
              manager |-> Len(heap1),
              heap    |-> heap1,
              global  |-> Some(Len(heap1))]
    ELSE [raised |-> None, manager |-> Val(global), heap |-> heap,
          global |-> global]

\* cleanup_embeddings()
cleanup_embeddings(heap, global) ==
  IF global = None THEN [heap |-> heap, global |-> None]
  ELSE [heap   |-> [heap EXCEPT ![Val(global)] = cleanup(heap[Val(global)])],
        global |-> None]

\* initialize_embeddings(): a new manager replaces the module-level one
\* before it is initialized, and stays there when the initialization fails
initialize_embeddings(heap, global, load) ==
  LET init == initialize_model(EmbeddingManager, load)
      heap1 == Append(heap, init.manager)
  IN  [result |-> init.result, heap |-> heap1, global |-> Some(Len(heap1))]

\* the module-level embed_query(text): the global manager's embed_query; a
\* RuntimeError of get_embedding_manager propagates
module_embed_query(heap, global, load, text, encode_ok) ==
  LET got == get_embedding_manager(heap, global, load)
  IN  [raised    |-> got.raised,
       manager   |-> got.manager,
       embedding |-> IF got.raised # None THEN None
                     ELSE embed_query(ModelReady(got.heap[got.manager]),
                                      text, encode_ok),
       heap      |-> got.heap,
       global    |-> got.global]

\* get_embedding_health()
get_embedding_health(heap, global, load) ==
  LET got == get_embedding_manager(heap, global, load)
  IN  [raised |-> got.raised,
       health |-> get_health_status(got.heap[got.manager]),
       heap   |-> got.heap,
       global |-> got.global]


(***************************************************************************)
(* Exceptions.  An exception is [type, message]; the type name is the      *)
(* sequence of its CamelCase words, so that the code's test                *)
(* `"Connection" in error_type` is membership of the word in the name.     *)
(***************************************************************************)
Exc(type, message) == [type |-> type, message |-> message]

InName(word, error_type) == \E i \in 1..Len(error_type) : error_type[i] = word

ValueError       == <<"Value", "Error">>
AttributeError   == <<"Attribute", "Error">>
ValidationError  == <<"Validation", "Error">>
ConnectionError  == <<"Connection", "Error">>

(***************************************************************************)
(* ElasticSearchRetriever.                                                 *)
(***************************************************************************)
_text_field      == "text"
_metadata_fields == <<"filename", "chunk_id", "page_number", "document_type">>

SearchParams(top_k, similarity_threshold, search_type, text_query) ==
  [top_k |-> top_k, similarity_threshold |-> similarity_threshold,
   search_type |-> search_type, text_query |-> text_query]

\* SearchParams(): the dataclass defaults
DefaultSearchParams ==
  SearchParams(DefaultTopK, DefaultThreshold, "vector", None)

\* Python's s[:k], for a negative k too
SliceTo(s, k) ==
  IF k >= 0 THEN SubSeq(s, 1, Min(k, Len(s)))
  ELSE SubSeq(s, 1, IF Len(s) + k > 0 THEN Len(s) + k ELSE 0)

\* list.sort(key=score, reverse=True): stable, descending
InsertDesc(sorted, r) ==
  LET before == {i \in 1..Len(sorted) : sorted[i].score >= r.score}
      n == Cardinality(before)
  IN  SubSeq(sorted, 1, n) \o <<r>> \o SubSeq(sorted, n + 1, Len(sorted))

RECURSIVE SortDesc(_, _)
SortDesc(rest, sorted) ==
  IF rest = <<>> THEN sorted
  ELSE SortDesc(Tail(rest), InsertDesc(sorted, Head(rest)))

\* the SearchResult built from one hit
SearchResult(hit) ==
  LET source   == hit._source
      metadata == [f \in {_metadata_fields[i] : i \in 1..Len(_metadata_fields)}
                        \cap DOMAIN source |-> source[f]]
  IN  [text          |-> GetOr(source, _text_field, ""),
       metadata      |-> metadata,
       score         |-> hit._score,
       chunk_id      |-> Get(metadata, "chunk_id"),
       document_name |-> Get(metadata, "filename")]

RECURSIVE FilterHits(_, _)
FilterHits(hits, threshold) ==
  IF hits = <<>> THEN <<>>
  ELSE IF Head(hits)._score < threshold
         THEN FilterHits(Tail(hits), threshold)
         ELSE <<SearchResult(Head(hits))>> \o FilterHits(Tail(hits), threshold)

\* results = results[:search_params.top_k]
LimitTopK(results, top_k) == SliceTo(results, top_k)

_process_results(hits, search_params) ==
  LimitTopK(SortDesc(FilterHits(hits, search_params.similarity_threshold), <<>>),
            search_params.top_k)

\* The request body: which construction was used and the requested size.
_build_vector_query(search_params) ==
  [kind |-> "vector", size |-> search_params.top_k]
_build_hybrid_query(text_query, search_params) ==
  [kind |-> "hybrid", size |-> search_params.top_k]
_build_keyword_query(text_query, search_params) ==
  [kind |-> "keyword", size |-> search_params.top_k]

\* the truth value of search_params.text_query: None and "" are false
HasTextQuery(search_params) ==
  search_params.text_query # None /\ Val(search_params.text_query) # ""

\* variant: hybrid and keyword built whether or not a text query is there
BuildQuery_no_fallback(search_params) ==
  IF search_params.search_type = "hybrid"
    THEN _build_hybrid_query(search_params.text_query, search_params)
  ELSE IF search_params.search_type = "keyword"
    THEN _build_keyword_query(search_params.text_query, search_params)
  ELSE _build_vector_query(search_params)

\* the if/elif chain of search_relevant_documents that builds the request
BuildQuery(search_params) ==
  IF search_params.search_type = "vector"
    THEN _build_vector_query(search_params)
  ELSE IF search_params.search_type = "hybrid" /\ HasTextQuery(search_params)
    THEN _build_hybrid_query(Val(search_params.text_query), search_params)
  ELSE IF search_params.search_type = "keyword" /\ HasTextQuery(search_params)
    THEN _build_keyword_query(Val(search_params.text_query), search_params)
  ELSE _build_vector_query(search_params)

\* A value of the Document metadata dict: the keys chunk_id and
\* document_name hold Optional[str] values.
DocMetadata(result) ==
  LET base == [score |-> result.score, chunk_id |-> result.chunk_id,
               document_name |-> result.document_name]
  IN  [k \in DOMAIN base \cup DOMAIN result.metadata |->
         IF k \in DOMAIN result.metadata
           THEN IF k = "chunk_id" THEN Some(result.metadata[k])
                ELSE result.metadata[k]
           ELSE base[k]]

Document(result) ==
  [page_content |-> result.text, metadata |-> DocMetadata(result)]

\* _execute_search: the index answers es.raised (ConnectionTimeout,
\* NotFoundError or another exception, re-raised after logging) or es.hits
_execute_search(es) == [raised |-> es.raised, response |-> es.hits]

\* variant: the `except Exception` of search_relevant_documents left out
search_relevant_documents_reraises(loaded, query, search_params, encode_ok, es) ==
  LET query_embedding == embed_query(loaded, query, encode_ok)
      executed == _execute_search(es)
      search_results == _process_results(executed.response, search_params)
  IN  IF query_embedding = None THEN [raised |-> None, documents |-> <<>>]
      ELSE IF executed.raised # None
        THEN [raised |-> executed.raised, documents |-> <<>>]
      ELSE [raised |-> None,
            documents |-> [i \in 1..Len(search_results) |->
                             Document(search_results[i])]]

\* search_relevant_documents: what the call raises (never anything) and the
\* list it returns; a failed embedding and every exception of the search
\* give the empty list.
search_relevant_documents(loaded, query, search_params, encode_ok, es) ==
  LET query_embedding == embed_query(loaded, query, encode_ok)
      executed == _execute_search(es)
      search_results == _process_results(executed.response, search_params)
  IN  IF query_embedding = None THEN [raised |-> None, documents |-> <<>>]
      ELSE IF executed.raised # None THEN [raised |-> None, documents |-> <<>>]
      ELSE [raised |-> None,
            documents |-> [i \in 1..Len(search_results) |->
                             Document(search_results[i])]]

\* the steps one search_relevant_documents call takes: the query is
\* embedded, and the index is searched unless the embedding failed
SearchStages(loaded, query, encode_ok) ==
  IF embed_query(loaded, query, encode_ok) = None THEN <<"EMBED">>
  ELSE <<"EMBED", "RETRIEVE">>

\* BaseRetriever entry point used by the RetrievalQA chain
get_relevant_documents(loaded, query, encode_ok, es) ==
  search_relevant_documents(loaded, query, DefaultSearchParams, encode_ok, es)

\* ElasticSearchRetriever.__init__: the retriever keeps the manager that
\* get_embedding_manager() hands out at construction; a RuntimeError of
\* get_embedding_manager propagates
ElasticSearchRetriever(heap, global, load) ==
  CHOOSE r \in
    {[raised    |-> got.raised,
      retriever |-> [_embedding_manager |-> got.manager],
      heap      |-> got.heap,
      global    |-> got.global]
       : got \in {get_embedding_manager(heap, global, load)}} : TRUE

\* get_retriever(): retriever is the module-level _retriever (None or the
\* retriever object)
get_retriever(retriever, heap, global, load) ==
  IF retriever = None
    THEN CHOOSE r \in
           {[raised     |-> made.raised,
             _retriever |-> IF made.raised # None THEN None
                            ELSE Some(made.retriever),
             heap       |-> made.heap,
             global     |-> made.global]
              : made \in {ElasticSearchRetriever(heap, global, load)}} : TRUE
    ELSE [raised |-> None, _retriever |-> retriever, heap |-> heap,
          global |-> global]

\* initialize_retriever(): a new retriever replaces the module-level one as
\* soon as it is constructed; index_valid is the verdict of validate_index
initialize_retriever(retriever, heap, global, load, index_valid) ==
  CHOOSE r \in
    {[result     |-> made.raised = None /\ index_valid,
      _retriever |-> IF made.raised # None THEN retriever
                     ELSE Some(made.retriever),
      heap       |-> made.heap,
      global     |-> made.global]
       : made \in {ElasticSearchRetriever(heap, global, load)}} : TRUE

(***************************************************************************)
(* shared_models: DocumentSource and QueryResponse, with the pydantic      *)
(* range checks of their fields.  A confidence is the exact fraction       *)
(* num/den; floating-point rounding is not modelled.                       *)
(***************************************************************************)
Frac(num, den) == [num |-> num, den |-> den]
FracEq(a, b)   == a.num * b.den = b.num * a.den
FracLe(a, b)   == a.num * b.den <= b.num * a.den
Zero == Frac(0, 1)
One  == Frac(1, 1)

\* Field(ge=0.0, le=1.0) of DocumentSource.score
ScoreValid(score) == 0 <= score /\ score <= ScoreScale

\* Field(ge=0.0, le=1.0) of QueryResponse.confidence_score
ConfidenceValid(c) == c = None \/ (FracLe(Zero, Val(c)) /\ FracLe(Val(c), One))

QueryResponse(answer, sources, query_metadata, confidence_score) ==
  [answer |-> answer, sources |-> sources,
   query_metadata |-> query_metadata, confidence_score |-> confidence_score]

(***************************************************************************)
(* RAGAgent helpers.                                                       *)
(***************************************************************************)
BoostNum == 11     \* avg_source_score *= 1.1
BoostDen == 10

\* variant: the division by 2.0 left out
NormalizeScore_undivided(raw_score) ==
  Min((raw_score * ScoreScale) \div RawScale, ScoreScale)

\* min(raw_score / 2.0, 1.0), in units of 1/ScoreScale
NormalizeScore(raw_score) ==
  Min((raw_score * ScoreScale) \div (RawScale * ScoreDivisor), ScoreScale)

StrippedKeys == {"score", "chunk_id", "document_name"}

\* variant: chunk_id missing from the list of stripped keys
ExposedMetadata_keeps_chunk_id(metadata) ==
  [k \in DOMAIN metadata \ {"score", "document_name"} |-> metadata[k]]

\* {k: v for k, v in doc.metadata.items() if k not in [...]}
ExposedMetadata(metadata) ==
  [k \in DOMAIN metadata \ StrippedKeys |-> metadata[k]]

\* the DocumentSource built from one document (before validation)
DocumentSource(doc) ==
  LET document_name == GetOr(doc.metadata, "document_name", None)
  IN  [document    |-> IF document_name = None THEN "Unknown"
                       ELSE Val(document_name),
       chunk_text  |-> doc.page_content,
       score       |-> NormalizeScore(GetOr(doc.metadata, "score", 0)),
       metadata    |-> ExposedMetadata(doc.metadata),
       chunk_id    |-> GetOr(doc.metadata, "chunk_id", None),
       page_number |-> Get(doc.metadata, "page_number")]

\* _extract_sources_from_documents: the sources, or the validation error of
\* the first document whose score is out of range (re-raised).
_extract_sources_from_documents(documents) ==
  LET sources == [i \in 1..Len(documents) |-> DocumentSource(documents[i])]
  IN  IF \E i \in 1..Len(sources) : ~ScoreValid(sources[i].score)
        THEN [raised |-> Some(Exc(ValidationError, "score")), sources |-> <<>>]
        ELSE [raised |-> None, sources |-> sources]

RECURSIVE SumScores(_)
SumScores(sources) ==
  IF sources = <<>> THEN 0 ELSE Head(sources).score + SumScores(Tail(sources))

\* variant: the boost applied to a single source too
_calculate_confidence_score_boost_always(answer, sources) ==
  IF sources = <<>> THEN Zero
  ELSE LET boosted == Frac(SumScores(sources) * BoostNum,
                           Len(sources) * ScoreScale * BoostDen)
       IN  IF FracLe(boosted, One) THEN boosted ELSE One

_calculate_confidence_score(answer, sources) ==
  IF sources = <<>> THEN Zero
  ELSE LET avg == Frac(SumScores(sources), Len(sources) * ScoreScale)
           boosted == IF Len(sources) > 1
                        THEN Frac(avg.num * BoostNum, avg.den * BoostDen)
                        ELSE avg
       IN  IF FracLe(boosted, One) THEN boosted ELSE One

\* _update_llm_parameters: assigns the client's own fields.  A pydantic
\* LLMParams object iterates as (name, value) pairs, so no key is "in" it.
_update_llm_parameters(llm_client, llm_params) ==
  LET d == IF llm_params.kind = "dict" THEN llm_params.d ELSE << >>
      has(k) == llm_params.kind = "dict" /\ k \in DOMAIN d
  IN  [temperature |-> IF has("temperature") THEN d["temperature"]
                       ELSE llm_client.temperature,
       max_tokens  |-> IF has("max_tokens") THEN d["max_tokens"]
                       ELSE llm_client.max_tokens,
       top_p       |-> IF has("top_p") THEN d["top_p"] ELSE llm_client.top_p]

\* truth value of an optional parameter object: None and {} are false
Truthy(params) ==
  /\ params.kind # "None"
  /\ params.kind = "dict" => DOMAIN params.d # {}

MsgNoResults == "I couldn't find any relevant information to answer your question. Please try rephrasing or ask a different question."
MsgGenConnectivity == "The AI model is currently unreachable due to connectivity issues. Please try again in a few minutes. If the problem persists, contact your administrator."
MsgGenUnavailable == "The AI model is not available at the moment. Please contact your administrator to check the model status."
MsgGenUnexpected == "An unexpected error occurred while processing your request. Please try again later or contact support if the issue continues."
MsgConnectivity == "Sorry, I cannot process your question at the moment due to connectivity issues with the AI model. Please try again in a few minutes."
MsgUnavailable == "Sorry, the AI model is not available at the moment. Please contact your system administrator."
MsgUnexpected == "Sorry, an unexpected error occurred while processing your question. Please try again later."

\* variant: the early return left out
NoDocuments_never(documents) == FALSE

\* `if not documents:` the early return of answer_query
NoDocuments(documents) == documents = <<>>

NoResultsResponse == QueryResponse(MsgNoResults, <<>>, None, Some(Zero))

\* variant: the fallback response built without a confidence score
GenerationFailureResponse_no_confidence(e) ==
  QueryResponse(MsgGenUnexpected, <<>>, None, None)

\* the response of the `except` around the generation call
GenerationFailureResponse(e) ==
  LET user_message ==
        IF InName("Connection", e.type) \/ InName("Timeout", e.type)
          THEN MsgGenConnectivity
        ELSE IF InName("Model", e.type) \/ InName("NotFound", e.type)
          THEN MsgGenUnavailable
        ELSE MsgGenUnexpected
  IN  QueryResponse(user_message, <<>>, None, Some(Zero))

\* variant: the text of the exception put into the answer
FailureResponse_with_text(e) ==
  QueryResponse(e.message, <<>>, None, Some(Zero))

\* the response of the outer `except Exception`
FailureResponse(e) ==
  LET user_message ==
        IF InName("Connection", e.type) \/ InName("Timeout", e.type)
          THEN MsgConnectivity
        ELSE IF InName("Model", e.type) \/ InName("NotFound", e.type)
          THEN MsgUnavailable
        ELSE MsgUnexpected
  IN  QueryResponse(user_message, <<>>, None, Some(Zero))

(***************************************************************************)
(* RAGAgent.answer_query.                                                  *)
(*   self   the agent: llm_client, the embedding manager's model_loaded,   *)
(*          total_queries_processed, total_processing_time                 *)
(*   cfg    the settings object                                            *)
(*   env    what the collaborators do during this call: encode_ok (the     *)
(*          embedding model encodes without raising), es (the index's      *)
(*          answer: raised or hits), gen (the generation backend's         *)
(*          answer: raised or answer), total_time (elapsed time)           *)
(* The result holds the returned response, the agent's fields after the    *)
(* call and what the call did (for the properties below).                  *)
(***************************************************************************)
Outcome(self, response, llm_client, counted, total_time, obs) ==
  [response |-> response,
   raised   |-> None,
   llm_client |-> llm_client,
   total_queries_processed |->
      self.total_queries_processed + (IF counted THEN 1 ELSE 0),
   total_processing_time |->
      self.total_processing_time + (IF counted THEN total_time ELSE 0),
   query_embedding_none |-> obs.query_embedding_none,
   search_params |-> obs.search_params,
   es_raised     |-> obs.es_raised,
   search_raised |-> obs.search_raised,
   documents     |-> obs.documents,
   llm_calls     |-> obs.llm_calls,
   llm_used      |-> obs.llm_used,
   gen_raised    |-> obs.gen_raised,
   context       |-> obs.context,
   failure       |-> obs.failure,
   errors        |-> obs.errors,
   stages        |-> obs.stages]

NoObs ==
  [query_embedding_none |-> FALSE, search_params |-> None,
   es_raised |-> None, search_raised |-> None, documents |-> <<>>,
   llm_calls |-> 0, llm_used |-> None, gen_raised |-> None, context |-> <<>>,
   failure |-> None, errors |-> <<>>, stages |-> <<>>]

\* record_error(error_type, subsystem): one more error metric with these
\* two tags
record_error(errors, error_type, subsystem) ==
  Append(errors, [error_type |-> error_type, subsystem |-> subsystem])

\* the subsystem tag of the generation handler's record_error call
GenerationErrorSubsystem == "rag"

\* the subsystem tag of the outer handler's record_error call
FailureSubsystem == "rag"

\* search_params = SearchParams(top_k=retrieval_params.get("top_k", ...) ...)
\* A pydantic RetrievalParams object has no .get: AttributeError.
ResolveSearchParams(cfg, retrieval_params) ==
  IF ~Truthy(retrieval_params)
    THEN [raised |-> None,
          value  |-> SearchParams(cfg.rag_top_k, cfg.rag_similarity_threshold,
                                  cfg.rag_search_type, None)]
  ELSE IF retrieval_params.kind = "model"
    THEN [raised |-> Some(Exc(AttributeError, "get")),
          value  |-> DefaultSearchParams]
  ELSE LET d == retrieval_params.d
       IN  [raised |-> None,
            value  |-> SearchParams(
                         GetOr(d, "top_k", cfg.rag_top_k),
                         GetOr(d, "similarity_threshold",
                               cfg.rag_similarity_threshold),
                         GetOr(d, "search_type", cfg.rag_search_type),
                         Get(d, "text_query"))]

\* sources=sources if settings.rag.include_sources else []
ShownSources(cfg, sources) == IF cfg.include_sources THEN sources ELSE <<>>

QueryMetadata(chunks_retrieved) == [chunks_retrieved |-> chunks_retrieved]

\* variant: the outer handler re-raises after recording the error
Failed_reraises(self, e, llm_client, obs) ==
  [Outcome(self, FailureResponse(e), llm_client, FALSE, 0,
           [obs EXCEPT !.failure = Some(e),
                       !.errors = record_error(obs.errors, e.type,
                                               FailureSubsystem)])
     EXCEPT !.raised = Some(e)]

\* the outer `except Exception as e`: the error metric and the response
Failed(self, e, llm_client, obs) ==
  Outcome(self, FailureResponse(e), llm_client, FALSE, 0,
          [obs EXCEPT !.failure = Some(e),
                      !.errors = record_error(obs.errors, e.type,
                                              FailureSubsystem)])

answer_query(self, cfg, question, llm_params, retrieval_params, env) ==
  LET query_embedding == embed_query(self.model_loaded, question, env.encode_ok)
      resolved == ResolveSearchParams(cfg, retrieval_params)
      search_params == resolved.value
      found ==
        search_relevant_documents(self.model_loaded, question, search_params,
                                  env.encode_ok, env.es)
      documents == found.documents
      llm_client == IF Truthy(llm_params)
                      THEN _update_llm_parameters(self.llm_client, llm_params)
                      ELSE self.llm_client
      \* qa_chain({"query": question}): the chain asks the retriever for its
      \* context documents, then calls the generation backend
      context == get_relevant_documents(self.model_loaded, question,
                                        env.encode_ok, env.es).documents
      extracted == _extract_sources_from_documents(documents)
      sources == extracted.sources
      confidence_score == _calculate_confidence_score(env.gen.answer, sources)
      \* Step 1, the embedding of the question
      obs0 == [NoObs EXCEPT !.stages = <<"EMBED">>]
      \* Step 2, the retriever's search (which embeds the question itself)
      obs1 == [obs0 EXCEPT
                 !.search_params = Some(search_params),
                 !.es_raised = _execute_search(env.es).raised,
                 !.search_raised = found.raised,
                 !.documents = documents,
                 !.stages = obs0.stages \o
                            SearchStages(self.model_loaded, question,
                                         env.encode_ok)]
      \* Step 3, _build_context_from_documents and the chain (which
      \* retrieves its own documents, then generates)
      obs2 == [obs1 EXCEPT
                 !.llm_calls = 1, !.llm_used = Some(llm_client),
                 !.gen_raised = env.gen.raised, !.context = context,
                 !.stages = obs1.stages \o <<"BUILD_PROMPT">> \o
                            SearchStages(self.model_loaded, question,
                                         env.encode_ok) \o <<"GENERATE">>]
      \* Step 4, sources, confidence and response
      obs3 == [obs2 EXCEPT !.stages = obs2.stages \o <<"ASSEMBLE">>]
      response ==
        QueryResponse(env.gen.answer,
                      ShownSources(cfg, sources),
                      IF cfg.include_metadata
                        THEN Some(QueryMetadata(Len(documents))) ELSE None,
                      Some(confidence_score))
  IN  IF query_embedding = None
        THEN Failed(self,
                    Exc(ValueError, "Failed to generate query embedding"),
                    self.llm_client,
                    [obs0 EXCEPT !.query_embedding_none = TRUE])
      ELSE IF resolved.raised # None
        THEN Failed(self, Val(resolved.raised), self.llm_client, obs0)
      ELSE IF found.raised # None
        THEN Failed(self, Val(found.raised), self.llm_client, obs1)
      ELSE IF NoDocuments(documents)
        THEN Outcome(self, NoResultsResponse, self.llm_client, FALSE, 0, obs1)
      ELSE IF env.gen.raised # None
        THEN Outcome(self, GenerationFailureResponse(Val(env.gen.raised)),
                     llm_client, FALSE, 0,
                     [obs2 EXCEPT !.errors =
                        record_error(obs2.errors, Val(env.gen.raised).type,
                                     GenerationErrorSubsystem)])
      ELSE IF extracted.raised # None
        THEN Failed(self, Val(extracted.raised), llm_client, obs3)
      ELSE IF ~ConfidenceValid(response.confidence_score)
        THEN LET out == Failed(self, Exc(ValidationError, "confidence"),
                               llm_client, obs3)
             IN  [out EXCEPT
                    !.total_queries_processed =
                       self.total_queries_processed + 1,
                    !.total_processing_time =
                       self.total_processing_time + env.total_time]
      ELSE Outcome(self, response, llm_client, TRUE, env.total_time, obs3)

(***************************************************************************)
(* routes.process_query: POST /query.  The handler passes the request's    *)
(* pydantic LLMParams / RetrievalParams objects on to answer_query and     *)
(* maps an exception of the call to an HTTP error.                         *)
(***************************************************************************)
HTTP_200_OK == 200
HTTP_400_BAD_REQUEST == 400
HTTP_503_SERVICE_UNAVAILABLE == 503
HTTP_500_INTERNAL_SERVER_ERROR == 500
HTTP_504_GATEWAY_TIMEOUT == 504

StatusOf(raised) ==
  IF raised = None THEN HTTP_200_OK
  ELSE IF Val(raised).type = ValueError THEN HTTP_400_BAD_REQUEST
  ELSE IF Val(raised).type = ConnectionError THEN HTTP_503_SERVICE_UNAVAILABLE
  ELSE HTTP_500_INTERNAL_SERVER_ERROR

process_query(self, cfg, query_request, env) ==
  LET r == answer_query(self, cfg, query_request.question,
                        query_request.llm_params,
                        query_request.retrieval_params, env)
  IN  [result |-> r, status_code |-> StatusOf(r.raised)]

(***************************************************************************)
(* Health reports.  `deps` is the state of the dependencies when the check *)
(* runs: es_reachable (the index answers info() and indices.stats()),      *)
(* vllm_reachable (the generation backend answers requests), load (what    *)
(* loading an embedding model does, should the check create a manager).    *)
(***************************************************************************)
\* ElasticSearchRetriever.get_health_status: every exception of the client
\* gives connection_healthy False
get_retriever_health_status(es_reachable) ==
  [connection_healthy |-> es_reachable]

\* the vLLM block of health_check: both branches report the client healthy
\* without a request to the backend
VllmHealth(llm_client) == [connection_healthy |-> TRUE]

\* variant: the embedding component reported but not counted in the verdict
health_check_ignores_embeddings(self, deps) ==
  LET retriever_health == get_retriever_health_status(deps.es_reachable)
      embedding_health == get_health_status(self.embedding_manager)
  IN  [agent_healthy |-> retriever_health.connection_healthy,
       components |-> [retriever  |-> retriever_health,
                       embeddings |-> embedding_health,
                       vllm       |-> VllmHealth(self.llm_client)],
       errors |-> IF retriever_health.connection_healthy THEN <<>>
                  ELSE <<"Retriever connection unhealthy">>]

\* RAGAgent.health_check
health_check(self, deps) ==
  LET retriever_health == get_retriever_health_status(deps.es_reachable)
      embedding_health == get_health_status(self.embedding_manager)
      vllm_health      == VllmHealth(self.llm_client)
      errors1 == IF ~retriever_health.connection_healthy
                   THEN <<"Retriever connection unhealthy">> ELSE <<>>
      healthy1 == retriever_health.connection_healthy
      errors2 == IF ~embedding_health.model_loaded
                   THEN Append(errors1, "Embedding model not loaded")
                   ELSE errors1
      healthy2 == IF ~embedding_health.model_loaded THEN FALSE ELSE healthy1
  IN  [agent_healthy |-> healthy2,
       components |-> [retriever  |-> retriever_health,
                       embeddings |-> embedding_health,
                       vllm       |-> vllm_health],
       errors |-> errors2]

\* routes.readiness_check: GET /ready.  The embedding check asks the
\* module-level manager (creating one when there is none); the vLLM check
\* looks at the agent's client object only.
readiness_check(self, heap, global, deps) ==
  LET es_health == get_retriever_health_status(deps.es_reachable)
      errors1 == IF ~es_health.connection_healthy
                   THEN <<"Elasticsearch connection unhealthy">> ELSE <<>>
      emb == get_embedding_health(heap, global, deps.load)
      emb_health == IF emb.raised # None THEN [model_loaded |-> FALSE]
                    ELSE emb.health
      errors2 == IF emb.raised # None
                   THEN Append(errors1, "Embedding check failed")
                 ELSE IF ~emb_health.model_loaded
                   THEN Append(errors1, "Embedding model not loaded")
                 ELSE errors1
      \* hasattr(agent, 'llm_client') and agent.llm_client is not None
      vllm_health == [connection_healthy |-> TRUE]
      agent_healthy == Len(errors2) = 0
  IN  [status_code |-> IF agent_healthy THEN HTTP_200_OK
                       ELSE HTTP_503_SERVICE_UNAVAILABLE,
       status      |-> IF agent_healthy THEN "ready" ELSE "not_ready",
       errors      |-> errors2,
       components  |-> [elasticsearch |-> es_health,
                        embeddings    |-> emb_health,
                        vllm          |-> vllm_health],
       heap        |-> emb.heap,
       global      |-> emb.global]

(***************************************************************************)
(* The state: one agent (the global _rag_agent) serving calls.             *)
(***************************************************************************)
VARIABLES
  settings,                  \* the settings object (fixed at start-up)
  index,                     \* the hits the document index holds
  llm_client,                \* RAGAgent.llm_client: its sampling parameters
  managers,                  \* the EmbeddingManager objects created so far
  _embedding_manager,        \* embeddings._embedding_manager: None or the
                             \* index of a manager
  _retriever,                \* retriever._retriever: None or the retriever
  _rag_agent,                \* agent._rag_agent: None or the agent's
                             \* embedding_manager and retriever
  threads,                   \* the threads running answer_query on the
                             \* agent, step by step
  total_queries_processed,   \* RAGAgent.total_queries_processed
  total_processing_time,     \* RAGAgent.total_processing_time
  calls,                     \* number of answer_query calls completed
  completed_time,            \* sum of the processing times of these calls
  last                       \* the last call: how it was made, what it did
                             \* and what it returned

vars == <<settings, index, llm_client, managers, _embedding_manager,
          _retriever, _rag_agent, threads,
          total_queries_processed, total_processing_time, calls,
          completed_time, last>>

\* settings.vllm defaults (temperature and top_p in tenths)
VllmTemperature == 7
VllmMaxTokens   == 512
VllmTopP        == 9

DefaultSettings ==
  [rag_top_k |-> DefaultTopK, rag_similarity_threshold |-> DefaultThreshold,
   rag_search_type |-> "vector", include_sources |-> TRUE,
   include_metadata |-> TRUE]

\* The deployments considered: the defaults, and RAG_TOP_K,
\* RAG_INCLUDE_SOURCES, RAG_INCLUDE_METADATA set in the environment (the
\* settings fields carry no range validation).
SettingsSet ==
  {DefaultSettings,
   [DefaultSettings EXCEPT !.rag_top_k = 2],
   [DefaultSettings EXCEPT !.rag_top_k = 0],
   [DefaultSettings EXCEPT !.rag_top_k = -1],
   [DefaultSettings EXCEPT !.rag_top_k = TopKMax + 1],
   [DefaultSettings EXCEPT !.include_sources = FALSE],
   [DefaultSettings EXCEPT !.include_metadata = FALSE]}

\* _setup_llm_client
ConfiguredLlmClient ==
  [temperature |-> VllmTemperature, max_tokens |-> VllmMaxTokens,
   top_p |-> VllmTopP]

\* Hits an index can return: _score in units of 1/RawScale.
HitPool ==
  {[_score |-> 18, _source |-> [text |-> "t1", filename |-> "a.pdf",
                                chunk_id |-> "c1", page_number |-> 3,
                                document_type |-> "pdf"]],
   [_score |-> 14, _source |-> [text |-> "t2"]],
   [_score |-> 25, _source |-> [filename |-> "b.pdf", chunk_id |-> "c3"]],
   [_score |-> 5,  _source |-> [text |-> "t4", filename |-> "d.pdf"]]}

\* the order in which the index lists its hits (not sorted by score)
HitOrder == <<18, 14, 25, 5>>

\* the responses of the index: the first n hits of the listing, n <= MaxHits
Indexes ==
  LET HitOf(score) == CHOOSE h \in HitPool : h._score = score
  IN  {[i \in 1..n |-> HitOf(HitOrder[i])] :
         n \in 0..Min(MaxHits, Len(HitOrder))}

\* the largest response
FullIndex ==
  CHOOSE h \in Indexes : \A g \in Indexes : Len(g) <= Len(h)

\* every index under the default settings, every settings under the
\* largest index
Deployments ==
  ({DefaultSettings} \X Indexes) \cup (SettingsSet \X {FullIndex})

Questions == {<<" ", "a", " ", "\t", "b", " ">>, <<" ">>}

\* request overrides of the sampling parameters (top_p left alone)
LlmDicts == {[temperature |-> 2, max_tokens |-> 64]}

RetrievalDicts ==
  {[top_k |-> 1],
   [top_k |-> -1, similarity_threshold |-> 0],
   [search_type |-> "keyword", text_query |-> "kw", similarity_threshold |-> 15]}

\* search parameters of direct retriever calls: the above, and hybrid and
\* keyword searches with and without a text query
SearchDicts ==
  RetrievalDicts \cup
  {[search_type |-> "hybrid", similarity_threshold |-> 0],
   [search_type |-> "hybrid", text_query |-> "kw", similarity_threshold |-> 0],
   [search_type |-> "hybrid", text_query |-> "", similarity_threshold |-> 0],
   [search_type |-> "keyword", similarity_threshold |-> 0]}

NoParams == [kind |-> "None", d |-> << >>]
Dict(d)  == [kind |-> "dict", d |-> d]
Model(d) == [kind |-> "model", d |-> d]

\* exceptions the generation backend raises
GenerationErrors ==
  {Exc(<<"API", "Connection", "Error">>, "Connection error."),
   Exc(<<"API", "Timeout", "Error">>, "Request timed out."),
   Exc(<<"NotFound", "Error">>, "model not found"),
   Exc(<<"Runtime", "Error">>, "boom")}

\* exceptions the index client raises
SearchErrors == {Exc(<<"Connection", "Timeout">>, "timed out")}

\* What the collaborators do during one call.  A failure ends the call, so
\* one collaborator fails at a time.
AllGood ==
  [encode_ok |-> TRUE, es_raised |-> None,
   gen |-> [raised |-> None, answer |-> "generated answer"], total_time |-> 1]

Environments ==
  {AllGood, [AllGood EXCEPT !.total_time = 2],
   [AllGood EXCEPT !.encode_ok = FALSE]}
  \cup {[AllGood EXCEPT !.es_raised = Some(e)] : e \in SearchErrors}
  \cup {[AllGood EXCEPT !.gen = [raised |-> Some(e), answer |-> ""]]
          : e \in GenerationErrors}

\* the question and the collaborators' behaviour of one call: a blank
\* question ends the call at the embedding step, whatever the rest does
Inputs ==
  {[question |-> q, env |-> AllGood] : q \in Questions}
  \cup {[question |-> <<" ", "a", " ", "\t", "b", " ">>, env |-> e]
          : e \in Environments}

Env(e) ==
  [encode_ok |-> e.encode_ok,
   es |-> [raised |-> e.es_raised, hits |-> index],
   gen |-> e.gen,
   total_time |-> e.total_time]

\* what loading an embedding model does
GoodLoad     == [raised |-> FALSE, dimension |-> VectorDimension]
MismatchLoad == [raised |-> FALSE, dimension |-> 2 * VectorDimension]
FailedLoad   == [raised |-> TRUE,  dimension |-> VectorDimension]

\* the state of the dependencies at a health check, one deviation at a time
AllUp ==
  [es_reachable |-> TRUE, vllm_reachable |-> TRUE, load |-> GoodLoad]

DependencyStates ==
  {AllUp, [AllUp EXCEPT !.es_reachable = FALSE],
   [AllUp EXCEPT !.vllm_reachable = FALSE],
   [AllUp EXCEPT !.load = MismatchLoad],
   [AllUp EXCEPT !.load = FailedLoad]}

\* RAGAgent.__init__: the agent takes the module-level retriever (an
\* existing one as it is) and the module-level embedding manager
RAGAgent(retriever, heap, global, load) ==
  CHOOSE made \in
    {IF r.raised # None
       THEN [raised |-> r.raised, agent |-> None, _retriever |-> r._retriever,
             heap |-> r.heap, global |-> r.global]
     ELSE CHOOSE a \in
            {[raised     |-> e.raised,
              agent      |-> IF e.raised # None THEN None
                             ELSE Some([embedding_manager |-> e.manager,
                                        retriever |-> Val(r._retriever)]),
              _retriever |-> r._retriever,
              heap       |-> e.heap,
              global     |-> e.global]
               : e \in {get_embedding_manager(r.heap, r.global, load)}} : TRUE
       : r \in {get_retriever(retriever, heap, global, load)}} : TRUE

\* initialize_rag_agent(): the new agent replaces the module-level one
\* before its health check; agent is the module-level _rag_agent
initialize_rag_agent(agent, retriever, heap, global, deps) ==
  CHOOSE r \in
    {LET new == Val(made.agent)
         health == health_check(
                     [llm_client |-> ConfiguredLlmClient,
                      embedding_manager |-> made.heap[new.embedding_manager]],
                     deps)
     IN  [result     |-> made.raised = None /\ health.agent_healthy,
          created    |-> made.raised = None,
          _rag_agent |-> IF made.raised # None THEN agent ELSE made.agent,
          _retriever |-> made._retriever,
          heap       |-> made.heap,
          global     |-> made.global]
       : made \in {RAGAgent(retriever, heap, global, deps.load)}} : TRUE

\* the manager of the current agent (self.embedding_manager) and the
\* manager of its retriever (self.retriever._embedding_manager)
AgentManager == Val(_rag_agent).embedding_manager
RetrieverManager == Val(_rag_agent).retriever._embedding_manager

Self ==
  [llm_client |-> llm_client,
   embedding_manager |-> managers[AgentManager],
   model_loaded |-> ModelReady(managers[AgentManager]),
   total_queries_processed |-> total_queries_processed,
   total_processing_time |-> total_processing_time]

\* the threads that call answer_query on the agent
Threads == 1..MaxThreads

\* a thread before its call: pc is the step it is at, llm_params the
\* overrides of its call, llm_used the sampling parameters its generation
\* ran with, loaded the counter value it read last
IdleThread ==
  [pc |-> "idle", llm_params |-> [kind |-> "None", d |-> << >>],
   total_time |-> 0, llm_used |-> None, loaded |-> 0]

\* the module-level retriever and agent after start-up
StartedRetriever == [_embedding_manager |-> 1]
StartedAgent == [embedding_manager |-> 1, retriever |-> StartedRetriever]

NoCall ==
  [kind |-> "none", status_code |-> 0, has_llm_overrides |-> FALSE,
   has_retrieval_overrides |-> FALSE, requested_top_k |-> None,
   result |-> Outcome([total_queries_processed |-> 0,
                       total_processing_time |-> 0],
                      QueryResponse("", <<>>, None, None),
                      ConfiguredLlmClient, FALSE, 0, NoObs),
   deps |-> None, report |-> None, embedded |-> None]

Init ==
  /\ \E d \in Deployments : settings = d[1] /\ index = d[2]
  /\ llm_client = ConfiguredLlmClient
  /\ managers = <<initialize_model(EmbeddingManager, GoodLoad).manager>>
  /\ _embedding_manager = Some(1)
  /\ _retriever = Some(StartedRetriever)
  /\ _rag_agent = Some(StartedAgent)
  /\ threads = [t \in Threads |-> IdleThread]
  /\ total_queries_processed = 0
  /\ total_processing_time = 0
  /\ calls = 0
  /\ completed_time = 0
  /\ last = NoCall

Apply(kind, status_code, llm_params, retrieval_params, total_time, r) ==
  /\ llm_client' = r.llm_client
  /\ total_queries_processed' = r.total_queries_processed
  /\ total_processing_time' = r.total_processing_time
  /\ calls' = calls + 1
  /\ completed_time' = completed_time + total_time
  /\ last' = [NoCall EXCEPT
                !.kind = kind, !.status_code = status_code,
                !.has_llm_overrides = Truthy(llm_params),
                !.has_retrieval_overrides = Truthy(retrieval_params),
                !.requested_top_k =
                   IF retrieval_params.kind = "None" THEN None
                   ELSE Get(retrieval_params.d, "top_k"),
                !.result = r]
  /\ UNCHANGED <<settings, index, managers, _embedding_manager, _retriever,
                 _rag_agent, threads>>

\* a caller invokes agent.answer_query(question, llm_params, retrieval_params)
AnswerQuery ==
  /\ calls < MaxCalls
  /\ \E in \in Inputs,
        llm_params \in {NoParams} \cup {Dict(d) : d \in LlmDicts},
        retrieval_params \in {NoParams} \cup {Dict(d) : d \in RetrievalDicts} :
       Apply("direct", 0, llm_params, retrieval_params, in.env.total_time,
             answer_query(Self, settings, in.question, llm_params,
                          retrieval_params, Env(in.env)))

\* a client posts a validated QueryRequest to /query
ProcessQuery ==
  /\ calls < MaxCalls
  /\ \E in \in Inputs,
        llm_params \in {NoParams} \cup {Model(d) : d \in LlmDicts},
        retrieval_params \in {NoParams, Model([top_k |-> 1])} :
       /\ QuestionMinLength <= Len(in.question)
       /\ Len(in.question) <= QuestionMaxLength
       /\ LET out == process_query(Self, settings,
                       [question |-> in.question, llm_params |-> llm_params,
                        retrieval_params |-> retrieval_params], Env(in.env))
          IN  Apply("http", out.status_code, llm_params, retrieval_params,
                    in.env.total_time, out.result)

\* cleanup_embeddings(): cleans the module-level manager up and forgets it
Cleanup ==
  /\ _embedding_manager # None
  /\ LET c == cleanup_embeddings(managers, _embedding_manager)
     IN  managers' = c.heap /\ _embedding_manager' = c.global
  /\ UNCHANGED <<settings, index, llm_client, total_queries_processed,
                 total_processing_time, calls, completed_time, last,
                 _retriever, _rag_agent, threads>>

\* the operations below leave the agent's client and counters alone
Probe(kind, status_code, r, deps, report, embedded) ==
  /\ last' = [NoCall EXCEPT !.kind = kind, !.status_code = status_code,
                            !.result = r, !.deps = deps, !.report = report,
                            !.embedded = embedded]
  /\ UNCHANGED <<settings, index, llm_client, total_queries_processed,
                 total_processing_time, calls, completed_time, threads>>

\* a caller invokes retriever.search_relevant_documents(query, search_params)
SearchRelevantDocuments ==
  /\ \E in \in Inputs,
        retrieval_params \in {NoParams} \cup {Dict(d) : d \in SearchDicts} :
       LET search_params == ResolveSearchParams(settings, retrieval_params).value
           found == search_relevant_documents(
                      ModelReady(managers[RetrieverManager]), in.question,
                      search_params, in.env.encode_ok, Env(in.env).es)
       IN  Probe("search", 0,
                 [NoCall.result EXCEPT
                    !.raised = found.raised,
                    !.query_embedding_none =
                       embed_query(ModelReady(managers[RetrieverManager]),
                                   in.question, in.env.encode_ok) = None,
                    !.search_params = Some(search_params),
                    !.es_raised =
                       IF embed_query(ModelReady(managers[RetrieverManager]),
                                      in.question, in.env.encode_ok) = None
                         THEN None
                         ELSE _execute_search(Env(in.env).es).raised,
                    !.search_raised = found.raised,
                    !.documents = found.documents],
                 None,
                 IF embed_query(ModelReady(managers[RetrieverManager]),
                                in.question, in.env.encode_ok) = None
                   THEN None
                   ELSE Some([es_query |-> BuildQuery(search_params)]),
                 None)
  /\ UNCHANGED <<managers, _embedding_manager, _retriever, _rag_agent>>

\* get_rag_health(): the agent's health_check
HealthCheck ==
  /\ \E deps \in DependencyStates :
       Probe("health", 0, NoCall.result, Some(deps),
             Some(health_check(Self, deps)), None)
  /\ UNCHANGED <<managers, _embedding_manager, _retriever, _rag_agent>>

\* a client gets /ready
ReadinessCheck ==
  /\ \E deps \in DependencyStates :
       LET r == readiness_check(Self, managers, _embedding_manager, deps)
       IN  /\ Len(r.heap) <= MaxManagers
           /\ managers' = r.heap
           /\ _embedding_manager' = r.global
           /\ UNCHANGED <<_retriever, _rag_agent>>
           /\ Probe("ready", r.status_code, NoCall.result,
                    Some([es_reachable |-> deps.es_reachable,
                          vllm_reachable |-> deps.vllm_reachable,
                          load |-> deps.load,
                          model_loaded |->
                             r.heap[Val(r.global)].model_loaded]),
                    Some([status |-> r.status, errors |-> r.errors,
                          components |-> r.components]), None)

\* a caller invokes the module-level embed_query(text)
EmbedQuery ==
  /\ \E in \in Inputs, load \in {GoodLoad, MismatchLoad, FailedLoad} :
       LET r == module_embed_query(managers, _embedding_manager, load,
                                   in.question, in.env.encode_ok)
       IN  /\ Len(r.heap) <= MaxManagers
           /\ managers' = r.heap
           /\ _embedding_manager' = r.global
           /\ UNCHANGED <<_retriever, _rag_agent>>
           /\ Probe("embed", 0, NoCall.result, None, None,
                    Some([raised |-> r.raised, manager |-> r.manager,
                          handed |-> r.heap[r.manager],
                          created |-> Len(r.heap) > Len(managers),
                          embedding |-> r.embedding]))

\* the characters of the short texts
Chars == {" ", "\t", "a"}

\* every text of at most MaxTextLen characters
Texts ==
  UNION {[1..n -> Chars] : n \in 0..MaxTextLen}

\* texts longer than max_length: the letter a, with whitespace at the
\* positions in ws
LongText(n, ws) == [i \in 1..n |-> IF i \in ws THEN " " ELSE "a"]

LongTexts ==
  {LongText(max_length + 2, {}),
   LongText(max_length + 2, {max_length}),
   LongText(max_length + 2, {1, max_length + 1}),
   LongText(max_length + 3, {1, 2, max_length + 2}),
   LongText(max_length + 3, {max_length, max_length + 1})}

\* the lists of texts of embed_batch calls
BatchTexts == {<<"a">>, <<" ">>, <<"a", " ", " ", "a", " ">>}

Batches ==
  UNION {[1..n -> BatchTexts] : n \in 0..MaxBatch}

\* a caller invokes manager.preprocess_text(text)
PreprocessText ==
  /\ \E text \in Texts \cup LongTexts :
       Probe("preprocess", 0, NoCall.result, None, None,
             Some([text |-> text, processed |-> preprocess_text(text)]))
  /\ UNCHANGED <<managers, _embedding_manager, _retriever, _rag_agent>>

\* a caller invokes manager.embed_batch(texts) on the agent's manager
EmbedBatch ==
  /\ \E texts \in Batches, encode_ok \in BOOLEAN, generated \in {0, 1} :
       LET self == [model_loaded |-> ModelReady(managers[AgentManager]),
                    total_embeddings_generated |-> generated]
           r == embed_batch(self, texts, encode_ok)
       IN  Probe("embed_batch", 0, NoCall.result, None, None,
                 Some([texts |-> texts, model_loaded |-> self.model_loaded,
                       encode_ok |-> encode_ok,
                       embeddings |-> r.embeddings,
                       generated_before |-> generated,
                       generated_after |-> r.total_embeddings_generated]))
  /\ UNCHANGED <<managers, _embedding_manager, _retriever, _rag_agent>>

\* the agent serving queries
Next == AnswerQuery \/ ProcessQuery \/ Cleanup

Spec == Init /\ [][Next]_vars

\* the operations around the agent: health and readiness checks, direct
\* uses of the retriever and of the embedding module
OpsNext ==
  \/ Cleanup \/ SearchRelevantDocuments \/ HealthCheck
  \/ ReadinessCheck \/ EmbedQuery

OpsSpec == Init /\ [][OpsNext]_vars

\* one deployment after start-up, for the operations that do not depend on
\* the settings and the index
EmbeddingInit ==
  /\ settings = DefaultSettings /\ index = <<>>
  /\ llm_client = ConfiguredLlmClient
  /\ managers = <<initialize_model(EmbeddingManager, GoodLoad).manager>>
  /\ _embedding_manager = Some(1)
  /\ _retriever = Some(StartedRetriever)
  /\ _rag_agent = Some(StartedAgent)
  /\ threads = [t \in Threads |-> IdleThread]
  /\ total_queries_processed = 0
  /\ total_processing_time = 0
  /\ calls = 0
  /\ completed_time = 0
  /\ last = NoCall

\* direct uses of an embedding manager
EmbeddingNext == PreprocessText \/ EmbedBatch \/ Cleanup

EmbeddingSpec == EmbeddingInit /\ [][EmbeddingNext]_vars

\* what loading an embedding model can do
Loads == {GoodLoad, MismatchLoad, FailedLoad}

\* a caller invokes get_embedding_manager()
GetEmbeddingManager ==
  /\ \E load \in Loads :
       \E r \in {get_embedding_manager(managers, _embedding_manager, load)} :
           /\ Len(r.heap) <= MaxManagers
           /\ managers' = r.heap
           /\ _embedding_manager' = r.global
           /\ Probe("get_embedding_manager", 0, NoCall.result, None, None,
                    Some([raised |-> r.raised, manager |-> r.manager,
                          handed |-> r.heap[r.manager],
                          created |-> Len(r.heap) > Len(managers)]))
  /\ UNCHANGED <<_retriever, _rag_agent>>

\* a caller invokes initialize_embeddings()
InitializeEmbeddings ==
  /\ \E load \in Loads :
       \E r \in {initialize_embeddings(managers, _embedding_manager, load)} :
           /\ Len(r.heap) <= MaxManagers
           /\ managers' = r.heap
           /\ _embedding_manager' = r.global
           /\ Probe("initialize_embeddings", 0, NoCall.result, None,
                    Some([result |-> r.result]), None)
  /\ UNCHANGED <<_retriever, _rag_agent>>

\* a caller invokes initialize_retriever()
InitializeRetriever ==
  /\ \E load \in Loads, index_valid \in BOOLEAN :
       \E r \in {initialize_retriever(_retriever, managers,
                                       _embedding_manager, load, index_valid)} :
           /\ Len(r.heap) <= MaxManagers
           /\ managers' = r.heap
           /\ _embedding_manager' = r.global
           /\ _retriever' = r._retriever
           /\ Probe("initialize_retriever", 0, NoCall.result, None,
                    Some([result |-> r.result]), None)
  /\ UNCHANGED _rag_agent

\* a caller invokes initialize_rag_agent(): a new agent starts with the
\* configured client and counters at zero
InitializeRagAgent ==
  /\ \E deps \in DependencyStates :
       \E r \in {initialize_rag_agent(_rag_agent, _retriever, managers,
                                       _embedding_manager, deps)} :
           /\ Len(r.heap) <= MaxManagers
           /\ managers' = r.heap
           /\ _embedding_manager' = r.global
           /\ _retriever' = r._retriever
           /\ _rag_agent' = r._rag_agent
           /\ IF r.created
                THEN /\ llm_client' = ConfiguredLlmClient
                     /\ total_queries_processed' = 0
                     /\ total_processing_time' = 0
                     /\ calls' = 0
                     /\ completed_time' = 0
                ELSE UNCHANGED <<llm_client, total_queries_processed,
                                 total_processing_time, calls, completed_time>>
           /\ last' = [NoCall EXCEPT
                         !.kind = "initialize_rag_agent",
                         !.report = Some([result |-> r.result,
                                          created |-> r.created])]
  /\ UNCHANGED <<settings, index, threads>>

\* start-up and shutdown operations of the three modules
LifecycleNext ==
  \/ Cleanup \/ GetEmbeddingManager \/ InitializeEmbeddings
  \/ InitializeRetriever \/ InitializeRagAgent

LifecycleSpec == EmbeddingInit /\ [][LifecycleNext]_vars

\* the sampling overrides of concurrent calls
ConcurrentLlmDicts == LlmDicts \cup {[temperature |-> 9]}

\* the sampling parameters a call asks for: its overrides on top of the
\* configured ones
RequestedLlm(llm_params) ==
  IF Truthy(llm_params)
    THEN _update_llm_parameters(ConfiguredLlmClient, llm_params)
    ELSE ConfiguredLlmClient

\* a step of thread t: to pc `to`, the other fields as given
Step(t, from, to, thread) ==
  /\ threads[t].pc = from
  /\ threads' = [threads EXCEPT ![t] = [thread EXCEPT !.pc = to]]

\* thread t calls agent.answer_query(question, llm_params); the question is
\* embedded and documents are found
Begin(t) ==
  /\ \E llm_params \in {NoParams} \cup {Dict(d) : d \in ConcurrentLlmDicts},
        total_time \in {1, 2} :
       Step(t, "idle", "retrieved",
            [threads[t] EXCEPT !.llm_params = llm_params,
                               !.total_time = total_time])
  /\ UNCHANGED <<settings, index, llm_client, managers, _embedding_manager,
                 _retriever, _rag_agent, total_queries_processed,
                 total_processing_time, calls, completed_time, last>>

\* `if llm_params: self._update_llm_parameters(llm_params)`
UpdateLlmParameters(t) ==
  /\ Step(t, "retrieved", "updated", threads[t])
  /\ llm_client' = IF Truthy(threads[t].llm_params)
                     THEN _update_llm_parameters(llm_client,
                                                 threads[t].llm_params)
                     ELSE llm_client
  /\ UNCHANGED <<settings, index, managers, _embedding_manager, _retriever,
                 _rag_agent, total_queries_processed, total_processing_time,
                 calls, completed_time, last>>

\* `result = self.qa_chain({"query": question})`: the request to the
\* backend carries the client's sampling parameters of that moment
Generate(t) ==
  /\ Step(t, "updated", "generated",
          [threads[t] EXCEPT !.llm_used = Some(llm_client)])
  /\ UNCHANGED <<settings, index, llm_client, managers, _embedding_manager,
                 _retriever, _rag_agent, total_queries_processed,
                 total_processing_time, calls, completed_time, last>>

\* `self.total_queries_processed += 1`: the attribute is read ...
LoadQueries(t) ==
  /\ Step(t, "generated", "queries_loaded",
          [threads[t] EXCEPT !.loaded = total_queries_processed])
  /\ UNCHANGED <<settings, index, llm_client, managers, _embedding_manager,
                 _retriever, _rag_agent, total_queries_processed,
                 total_processing_time, calls, completed_time, last>>

\* ... and the sum is stored
StoreQueries(t) ==
  /\ Step(t, "queries_loaded", "queries_stored", threads[t])
  /\ total_queries_processed' = threads[t].loaded + 1
  /\ UNCHANGED <<settings, index, llm_client, managers, _embedding_manager,
                 _retriever, _rag_agent, total_processing_time, calls,
                 completed_time, last>>

\* `self.total_processing_time += total_time`: the attribute is read ...
LoadTime(t) ==
  /\ Step(t, "queries_stored", "time_loaded",
          [threads[t] EXCEPT !.loaded = total_processing_time])
  /\ UNCHANGED <<settings, index, llm_client, managers, _embedding_manager,
                 _retriever, _rag_agent, total_queries_processed,
                 total_processing_time, calls, completed_time, last>>

\* ... and the sum is stored; the call returns its response
StoreTime(t) ==
  /\ Step(t, "time_loaded", "done", threads[t])
  /\ total_processing_time' = threads[t].loaded + threads[t].total_time
  /\ calls' = calls + 1
  /\ completed_time' = completed_time + threads[t].total_time
  /\ UNCHANGED <<settings, index, llm_client, managers, _embedding_manager,
                 _retriever, _rag_agent, total_queries_processed, last>>

\* answer_query calls of several threads on the one agent, interleaved
\* between their reads and writes of the agent's fields
ConcurrentNext ==
  \E t \in Threads :
     \/ Begin(t) \/ UpdateLlmParameters(t) \/ Generate(t)
     \/ LoadQueries(t) \/ StoreQueries(t) \/ LoadTime(t) \/ StoreTime(t)

ConcurrentSpec == EmbeddingInit /\ [][ConcurrentNext]_vars

(***************************************************************************)
(* Properties.                                                             *)
(***************************************************************************)
Called    == last.kind \in {"direct", "http"}
Result    == last.result
Response  == last.result.response
Retrieved == Called /\ Result.search_params # None
IsZero(c) == c # None /\ FracEq(Val(c), Zero)

\* C1: whenever the retrieval step of answer_query yields zero chunks, the
\* call returns (no exception) the fixed "couldn't find any relevant
\* information" answer with empty sources and confidence 0.0, and the
\* generation backend is not called during that call.
C1_NoChunksShortCircuit ==
  (Retrieved /\ Result.documents = <<>>) =>
     /\ Result.raised = None
     /\ Response.answer = MsgNoResults
     /\ Response.sources = <<>>
     /\ IsZero(Response.confidence_score)
     /\ Result.llm_calls = 0

\* C1 witness: the index holds hits, yet the retrieval of the call yielded
\* no chunk and the no-results answer was returned.
C1_Witness ==
  /\ Retrieved /\ Result.documents = <<>> /\ index # <<>>
  /\ Response.answer = MsgNoResults

\* C2: whenever the generation call raises after at least one chunk was
\* retrieved, answer_query returns normally: the answer is one of the fixed
\* apology messages of the generation handler, the sources are empty and
\* the confidence is 0.0.
C2_GenerationFailureFallback ==
  (Called /\ Result.gen_raised # None) =>
     /\ Len(Result.documents) >= 1
     /\ Result.raised = None
     /\ Response.answer \in
          {MsgGenConnectivity, MsgGenUnavailable, MsgGenUnexpected}
     /\ Response.sources = <<>>
     /\ IsZero(Response.confidence_score)

\* C2 witness: a connection error of the generation backend, answered with
\* the connectivity apology.
C2_Witness ==
  /\ Called /\ Result.gen_raised # None
  /\ InName("Connection", Val(Result.gen_raised).type)
  /\ Len(Result.documents) >= 1
  /\ Response.answer = MsgGenConnectivity

\* C3 (as claimed): when the embedding of the query is None, the caller of
\* POST /query gets HTTP 400.
C3_EmbeddingNoneIsBadRequest ==
  (last.kind = "http" /\ Result.query_embedding_none) =>
     last.status_code = HTTP_400_BAD_REQUEST

\* C4 (as claimed): overrides apply to their own call only: after every
\* call the shared client holds the configured defaults again, and a call
\* without overrides generates with the defaults.
C4_OverridesDoNotLeak ==
  Called =>
     /\ llm_client = ConfiguredLlmClient
     /\ (Result.llm_calls = 1 /\ ~last.has_llm_overrides) =>
           Val(Result.llm_used) = ConfiguredLlmClient

RECURSIVE TotalScore(_, _)
TotalScore(sources, n) ==
  IF n = 0 THEN 0 ELSE sources[n].score + TotalScore(sources, n - 1)

\* C5: for a non-empty list of sources the confidence is
\* min(1, average score * 1.1) for more than one source and min(1, score)
\* for exactly one, and lies in [0,1]; one source of 0.9 gives 0.9, sources
\* of 0.9 and 0.7 give 0.88.
C5_ConfidenceFormula ==
  (Called /\ Response.sources # <<>>) =>
     LET n == Len(Response.sources)
         total == TotalScore(Response.sources, n)
         c == Val(Response.confidence_score)
     IN  /\ Response.confidence_score # None
         /\ FracLe(Zero, c) /\ FracLe(c, One)
         /\ n = 1 =>
              IF total >= ScoreScale THEN FracEq(c, One)
              ELSE FracEq(c, Frac(total, ScoreScale))
         /\ n > 1 =>
              IF total * 11 >= n * ScoreScale * 10 THEN FracEq(c, One)
              ELSE FracEq(c, Frac(total * 11, n * ScoreScale * 10))
         /\ (n = 1 /\ Response.sources[1].score = 90) => FracEq(c, Frac(9, 10))
         /\ (n = 2 /\ {Response.sources[1].score, Response.sources[2].score}
                        = {90, 70}) => FracEq(c, Frac(88, 100))

\* C5 witness: a response with the two sources 0.9 and 0.7 and the
\* confidence 0.88.
C5_Witness ==
  /\ Called /\ Len(Response.sources) = 2
  /\ Response.sources[1].score = 90 /\ Response.sources[2].score = 70
  /\ FracEq(Val(Response.confidence_score), Frac(88, 100))

\* C6 (as claimed): in every response of answer_query, empty sources imply
\* confidence 0.0.
C6_EmptySourcesZeroConfidence ==
  (Called /\ Response.sources = <<>>) => IsZero(Response.confidence_score)

\* C7: every source score of a response lies in [0,1], and for a raw score
\* on the 0-2.0 scale it is the raw score divided by 2.0 (1.8 gives 0.9).
C7_ScoresNormalized ==
  Called =>
     /\ \A i \in 1..Len(Response.sources) :
           0 <= Response.sources[i].score
           /\ Response.sources[i].score <= ScoreScale
     /\ Len(Response.sources) = Len(Result.documents) =>
          \A i \in 1..Len(Response.sources) :
             LET raw == Result.documents[i].metadata.score
             IN  /\ (0 <= raw /\ raw <= 2 * RawScale) =>
                       2 * RawScale * Response.sources[i].score
                         = raw * ScoreScale
                 /\ raw = 18 => Response.sources[i].score = 90

\* C7 witness: a response exposing a raw 1.8 as 0.9 and a raw 2.5 as 1.0.
C7_Witness ==
  /\ Called /\ Len(Response.sources) = Len(Result.documents)
  /\ \E i, j \in 1..Len(Response.sources) :
        /\ Result.documents[i].metadata.score = 18
        /\ Response.sources[i].score = 90
        /\ Result.documents[j].metadata.score = 25
        /\ Response.sources[j].score = ScoreScale

\* C8 (as claimed): the response never holds more sources than the
\* effective top_k of the call, and the retriever never returns more chunks
\* than the requested top_k.
C8_AtMostTopK ==
  Retrieved =>
     /\ Len(Response.sources) <= Val(Result.search_params).top_k
     /\ Len(Result.documents) <= Val(Result.search_params).top_k

\* C9 (as claimed): the effective top_k of every search is at least 1 and
\* at most the hard cap.
C9_TopKInRange ==
  Retrieved =>
     /\ TopKMin <= Val(Result.search_params).top_k
     /\ Val(Result.search_params).top_k <= TopKMax

\* C10: the metadata map of every source of every response holds none of
\* the keys score, chunk_id, document_name.
C10_MetadataStripped ==
  \A i \in 1..Len(Response.sources) :
     DOMAIN Response.sources[i].metadata
        \cap {"score", "chunk_id", "document_name"} = {}

\* C10 witness: a source of a chunk that carried a chunk_id and a document
\* name besides other metadata, exposed with the other metadata only.
C10_Witness ==
  \E i \in 1..Len(Response.sources) :
     /\ Len(Response.sources) = Len(Result.documents)
     /\ {"score", "chunk_id", "document_name", "page_number"}
           \subseteq DOMAIN Result.documents[i].metadata
     /\ Result.documents[i].metadata.chunk_id # None
     /\ "page_number" \in DOMAIN Response.sources[i].metadata

ReadyCall  == last.kind = "ready"
HealthCall == last.kind = "health"
SearchCall == last.kind = "search"
EmbedCall  == last.kind = "embed"
Report     == Val(last.report)
Deps       == Val(last.deps)
Embedded   == Val(last.embedded)

\* C11 (as claimed): the readiness check answers HTTP 200 with status
\* "ready" exactly when the index is reachable, the embedding model is
\* loaded and the generation backend is reachable; otherwise it answers
\* HTTP 503.
C11_ReadyIffAllDependencies ==
  ReadyCall =>
     LET all_up == /\ Deps.es_reachable /\ Deps.model_loaded
                   /\ Deps.vllm_reachable
     IN  /\ (last.status_code = HTTP_200_OK /\ Report.status = "ready")
              <=> all_up
         /\ ~all_up => last.status_code = HTTP_503_SERVICE_UNAVAILABLE

\* C12: in every report of health_check, agent_healthy is true exactly
\* when the retriever connection, the embedding model and the generation
\* client are all reported healthy, and exactly when the errors list is
\* empty.
C12_HealthVerdict ==
  HealthCall =>
     LET c == Report.components
     IN  /\ Report.agent_healthy <=>
              (/\ c.retriever.connection_healthy
               /\ c.embeddings.model_loaded
               /\ c.vllm.connection_healthy)
         /\ Report.agent_healthy <=> (Report.errors = <<>>)

\* C12 witness: a report after the embedding model was cleaned up, with the
\* index reachable: unhealthy, with the one error of the embedding model.
C12_Witness ==
  /\ HealthCall /\ Deps.es_reachable
  /\ ~Report.components.embeddings.model_loaded
  /\ ~Report.agent_healthy
  /\ Report.errors = <<"Embedding model not loaded">>

C14_SearchNeverRaises ==
  SearchCall =>
     /\ Result.raised = None
     /\ Result.search_raised = None
     /\ (Result.query_embedding_none \/ Result.es_raised # None) =>
           Result.documents = <<>>

\* C14 witness: a search of an index that holds hits, in which the index
\* client raised and the empty list was returned.
C14_Witness ==
  /\ SearchCall /\ index # <<>>
  /\ ~Result.query_embedding_none /\ Result.es_raised # None
  /\ Result.raised = None /\ Result.documents = <<>>

\* texts exceptions carry
ExceptionTexts ==
  {e.message : e \in GenerationErrors \cup SearchErrors}
  \cup {"Failed to generate query embedding", "get", "score", "confidence",
        "another text"}

\* C15: the answer returned after a failure is the same whatever the text
\* of the exception: the run that differs only in that text (same stage,
\* same exception type) returns the same answer, and the answer is not the
\* exception's text.
C15_NoRawExceptionText ==
  Called =>
     /\ Result.gen_raised # None =>
          /\ Response.answer \notin ExceptionTexts
          /\ \A m \in ExceptionTexts :
                GenerationFailureResponse(
                   Exc(Val(Result.gen_raised).type, m)).answer
                  = Response.answer
     /\ Result.failure # None =>
          /\ Response.answer \notin ExceptionTexts
          /\ \A m \in ExceptionTexts :
                FailureResponse(Exc(Val(Result.failure).type, m)).answer
                  = Response.answer

\* C15 witness: a generation failure of an unclassified type, answered
\* with the generic apology.
C15_Witness ==
  /\ Called /\ Result.gen_raised # None
  /\ Val(Result.gen_raised).message = "boom"
  /\ Response.answer = MsgGenUnexpected

\* the category of a generation failure
Category(e) ==
  IF InName("Connection", e.type) THEN "network"
  ELSE IF InName("Timeout", e.type) THEN "timeout"
  ELSE IF InName("Model", e.type) \/ InName("NotFound", e.type)
    THEN "model_not_found"
  ELSE "unknown"

\* C16 (as claimed): the answer given for a generation failure of one of
\* the four categories (network, timeout, model-not-found, unknown) differs
\* from the answer given for a failure of any other category.
C16_FourDistinctMessages ==
  (Called /\ Result.gen_raised # None) =>
     \A e \in GenerationErrors :
        Category(e) # Category(Val(Result.gen_raised)) =>
           GenerationFailureResponse(e).answer # Response.answer

\* C17 (as claimed): a connection or timeout error of the generation
\* backend is recorded as exactly one error metric, tagged with the type
\* of the error and the subsystem "generation".
C17_GenerationErrorMetric ==
  (/\ Called /\ Result.gen_raised # None
   /\ \/ InName("Connection", Val(Result.gen_raised).type)
      \/ InName("Timeout", Val(Result.gen_raised).type)) =>
     Result.errors = <<[error_type |-> Val(Result.gen_raised).type,
                        subsystem  |-> "generation"]>>

\* a manager whose model has another output dimension than configured
Mismatched(m) == m.model # None /\ Val(m.model) # m.vector_dimension

C19_TimeoutIsGatewayTimeout ==
  (/\ last.kind = "http"
   /\ \/ /\ Result.gen_raised # None
         /\ InName("Timeout", Val(Result.gen_raised).type)
      \/ /\ Result.es_raised # None
         /\ InName("Timeout", Val(Result.es_raised).type)) =>
     last.status_code = HTTP_504_GATEWAY_TIMEOUT

\* the place of a stage in the linear order
StageRank(stage) ==
  CASE stage = "EMBED" -> 1
    [] stage = "RETRIEVE" -> 2
    [] stage = "BUILD_PROMPT" -> 3
    [] stage = "GENERATE" -> 4
    [] stage = "ASSEMBLE" -> 5

\* C20 (as claimed): within one answer_query call the stages run in the
\* order EMBED, RETRIEVE, BUILD_PROMPT, GENERATE, ASSEMBLE, each at most
\* once and none after a later one: one embedding and one index search per
\* call, both before the generation.
C20_LinearStages ==
  Called =>
     \A i, j \in 1..Len(Result.stages) :
        i < j => StageRank(Result.stages[i]) < StageRank(Result.stages[j])

\* the hits of the index whose raw score reaches the threshold
Qualifying(threshold) ==
  {i \in 1..Len(index) : index[i]._score >= threshold}

\* a search that reached the index and got its hits
Searched ==
  SearchCall /\ ~Result.query_embedding_none /\ Result.es_raised = None

\* C21 (as claimed): the list a search returns is exactly the hits whose raw
\* score is at least similarity_threshold, sorted by raw score descending and
\* cut to the first top_k: every returned chunk is such a hit, no hit is
\* returned twice, the scores descend, there are at most top_k chunks (none
\* for a top_k below 1), and a
\* hit at or above the threshold is left out only when top_k chunks with
\* scores at least as high are returned.
C21_FilterSortTruncate ==
  Searched =>
     LET p == Val(Result.search_params)
         docs == Result.documents
         Returned(i) == \E j \in 1..Len(docs) :
                           docs[j].metadata.score = index[i]._score
     IN  /\ \A j \in 1..Len(docs) :
               \E i \in Qualifying(p.similarity_threshold) :
                  docs[j].metadata.score = index[i]._score
         /\ \A j, k \in 1..Len(docs) :
               j < k => docs[j].metadata.score > docs[k].metadata.score
         /\ Len(docs) <= (IF p.top_k > 0 THEN p.top_k ELSE 0)
         /\ \A i \in Qualifying(p.similarity_threshold) :
               ~Returned(i) =>
                  /\ Len(docs) >= p.top_k
                  /\ \A j \in 1..Len(docs) :
                        docs[j].metadata.score >= index[i]._score

\* the request sent to the index by the last search
EsQuery == Report.es_query

\* C22: a hybrid or keyword search without a text query is executed as a
\* vector search and raises nothing; with a text query, a hybrid search uses
\* the hybrid construction and a keyword search the keyword construction.
C22_FallbackToVector ==
  (SearchCall /\ ~Result.query_embedding_none) =>
     LET p == Val(Result.search_params)
     IN  /\ (p.search_type \in {"hybrid", "keyword"} /\ ~HasTextQuery(p)) =>
               /\ EsQuery.kind = "vector"
               /\ Result.raised = None /\ Result.search_raised = None
         /\ (p.search_type = "hybrid" /\ HasTextQuery(p)) =>
               EsQuery.kind = "hybrid"
         /\ (p.search_type = "keyword" /\ HasTextQuery(p)) =>
               EsQuery.kind = "keyword"

\* C22 witness: a hybrid search without a text query that was sent as a
\* vector request and returned chunks.
C22_Witness ==
  /\ Searched
  /\ Val(Result.search_params).search_type = "hybrid"
  /\ Val(Result.search_params).text_query = None
  /\ EsQuery.kind = "vector"
  /\ Result.documents # <<>>

\* a keyword search with a text query, sent as a keyword request
C22_KeywordReached ==
  /\ Searched
  /\ Val(Result.search_params).search_type = "keyword"
  /\ EsQuery.kind = "keyword"

PreprocessCall == last.kind = "preprocess"
BatchCall      == last.kind = "embed_batch"

\* the characters of a text that are not whitespace, in order
NonWhitespace(text) == SelectSeq(text, LAMBDA c : c \notin Whitespace)

IsPrefix(a, b) == Len(a) <= Len(b) /\ SubSeq(b, 1, Len(a)) = a

\* no character of the text is whitespace other than a single space between
\* two other characters
Collapsed(text) ==
  /\ \A i \in 1..Len(text) : text[i] \in Whitespace => text[i] = " "
  /\ \A i \in 1..(Len(text) - 1) : ~(text[i] = " " /\ text[i + 1] = " ")

\* C25 (as claimed): preprocess_text returns a text of at most 512
\* characters with no leading or trailing whitespace, in which every run of
\* whitespace is a single space.
C25_TrimmedCollapsedTruncated ==
  PreprocessCall =>
     LET processed == Embedded.processed
     IN  /\ Len(processed) <= max_length
         /\ processed # <<>> =>
               /\ processed[1] \notin Whitespace
               /\ processed[Len(processed)] \notin Whitespace
         /\ Collapsed(processed)

\* C25 (amended): preprocess_text returns the first 512 characters of the
\* trimmed and collapsed text: at most 512 characters, no leading
\* whitespace, every run of whitespace a single space, the other characters
\* those of the input in order, all of them unless the text was cut at 512
\* characters; the result ends in a space only when it was cut there.
C25_TruncatedAfterCollapse ==
  PreprocessCall =>
     LET processed == Embedded.processed
     IN  /\ Len(processed) <= max_length
         /\ processed # <<>> => processed[1] \notin Whitespace
         /\ Collapsed(processed)
         /\ IsPrefix(NonWhitespace(processed), NonWhitespace(Embedded.text))
         /\ Len(processed) < max_length =>
               NonWhitespace(processed) = NonWhitespace(Embedded.text)
         /\ (processed # <<>> /\ processed[Len(processed)] \in Whitespace) =>
               /\ Len(processed) = max_length
               /\ NonWhitespace(processed) # NonWhitespace(Embedded.text)

\* C25 witness: a text longer than 512 characters whose preprocessing was
\* cut at 512 characters and ends in a space.
C25_Witness ==
  /\ PreprocessCall
  /\ Len(Embedded.text) > max_length
  /\ Len(Embedded.processed) = max_length
  /\ Embedded.processed[max_length] = " "

\* a short text with leading, trailing and repeated whitespace
C25_ShortReached ==
  /\ PreprocessCall
  /\ Embedded.text = <<"a", "\t", " ", "a">>
  /\ Embedded.processed = <<"a", " ", "a">>

\* C30 (as claimed): for a non-empty list of texts and a loaded model,
\* embed_batch returns one vector per input text, row i the embedding of
\* text i, and total_embeddings_generated grows by the number of texts.
C30_OneVectorPerText ==
  (BatchCall /\ Embedded.model_loaded /\ Embedded.encode_ok
     /\ Embedded.texts # <<>>) =>
     /\ Embedded.embeddings # None
     /\ Len(Val(Embedded.embeddings)) = Len(Embedded.texts)
     /\ \A i \in 1..Len(Embedded.texts) :
           Val(Embedded.embeddings)[i] =
              [vector_of |-> preprocess_text(Embedded.texts[i])]
     /\ Embedded.generated_after =
           Embedded.generated_before + Len(Embedded.texts)

\* the answers answer_query gives in place of a generated one
FixedAnswers ==
  {MsgNoResults, MsgGenConnectivity, MsgGenUnavailable, MsgGenUnexpected,
   MsgConnectivity, MsgUnavailable, MsgUnexpected}

C26_EmbeddingFailureReached ==
  Called /\ Result.query_embedding_none /\ Result.raised = None

C26_GenerationFailureReached ==
  Called /\ Result.gen_raised # None /\ Result.raised = None

\* the page contents and raw scores of a list of chunks
Chunks(documents) ==
  [i \in 1..Len(documents) |->
     [page_content |-> documents[i].page_content,
      score |-> documents[i].metadata.score]]

\* C27 (as claimed): the chunks the generation backend gets as context are
\* the chunks retrieved with the effective search parameters of the call,
\* the ones the response reports as its sources.
C27_ContextIsRetrieved ==
  (Called /\ Result.llm_calls = 1) =>
     /\ Chunks(Result.context) = Chunks(Result.documents)
     /\ (Result.gen_raised = None /\ Result.failure = None
           /\ settings.include_sources) =>
           /\ Len(Response.sources) = Len(Result.context)
           /\ \A i \in 1..Len(Response.sources) :
                 Response.sources[i].chunk_text =
                    Result.context[i].page_content

GetManagerCall == last.kind = "get_embedding_manager"

\* C28 (as claimed): after any sequence of get_embedding_manager,
\* initialize_embeddings and cleanup_embeddings calls, a get_embedding_manager
\* call that returns hands out a manager whose model is loaded; a call made
\* while the module-level manager failed to initialize raises.
C28_NeverHandsOutFailedManager ==
  (GetManagerCall /\ Embedded.raised = None) => ModelReady(Embedded.handed)

\* C29 (as claimed): after any sequence of initialize_embeddings,
\* cleanup_embeddings, initialize_retriever and initialize_rag_agent calls,
\* the retriever of the current agent holds the current module-level
\* embedding manager.
C29_RetrieverUsesCurrentManager ==
  (_rag_agent # None /\ _embedding_manager # None) =>
     RetrieverManager = Val(_embedding_manager)

AllDone == \A t \in Threads : threads[t].pc = "done"

\* C23 (as claimed): in every interleaving of concurrent answer_query calls,
\* once all calls have completed, total_queries_processed has grown by the
\* number of calls that updated it and total_processing_time by the sum of
\* their times.
C23_NoLostUpdate ==
  AllDone =>
     /\ total_queries_processed = calls
     /\ total_processing_time = completed_time

\* C24 (as claimed): in every interleaving of concurrent answer_query calls,
\* the sampling parameters a call's generation ran with are its own
\* overrides on top of the configured parameters.
C24_OwnSamplingParameters ==
  \A t \in Threads :
     threads[t].llm_used # None =>
        Val(threads[t].llm_used) = RequestedLlm(threads[t].llm_params)

=============================================================================
